---------------------------- MODULE Spec2Model ----------------------------
(***************************************************************************)
(* A model of src/node.py: the LM Studio chat node (class LMStudioNode).   *)
(*                                                                         *)
(* Text is a sequence of one-character strings, so that the regular        *)
(* expression substitution, the strip and the formatting of numbers are    *)
(* computed character by character, as Python computes them.               *)
(*                                                                         *)
(* The external collaborators (the lmstudio binding, the requests          *)
(* transport, the file system) are the environment: each of their calls    *)
(* either returns or raises, and the model takes every outcome.  print()   *)
(* is taken not to raise; the attribute reads made for the debug log       *)
(* (result.stats.generation_time_sec) may.                                 *)
(*                                                                         *)
(* A character that has no escape in a string of this language is written  *)
(* as its Python escape: the character \x0b is the element "\\x0b".       *)
(***************************************************************************)
EXTENDS Integers, Sequences, FiniteSets, TLC

\* The characters str.strip() removes: those str.isspace() is true of.
Whitespace ==
    { "\t", "\n", "\\x0b", "\f", "\r", "\\x1c", "\\x1d", "\\x1e", "\\x1f",
      " ", "\\x85", "\\xa0", "\\u1680", "\\u2000", "\\u2001", "\\u2002",
      "\\u2003", "\\u2004", "\\u2005", "\\u2006", "\\u2007", "\\u2008",
      "\\u2009", "\\u200a", "\\u2028", "\\u2029", "\\u202f", "\\u205f",
      "\\u3000" }

OpenTag == <<"<", "t", "h", "i", "n", "k", ">">>

CloseTag == <<"<", "/", "t", "h", "i", "n", "k", ">">>

\* text[i .. i+Len(pat)-1] = pat
MatchAt(text, i, pat) ==
    /\ i >= 1
    /\ i + Len(pat) - 1 <= Len(text)
    /\ \A k \in 1..Len(pat) : text[i + k - 1] = pat[k]

\* The least j >= from with pat at j, or 0 when there is none.
RECURSIVE FindFrom(_, _, _)
FindFrom(text, from, pat) ==
    IF from + Len(pat) - 1 > Len(text) THEN 0
    ELSE IF MatchAt(text, from, pat) THEN from
    ELSE FindFrom(text, from + 1, pat)

\* re.sub(r"<think>.*?</think>", "", text, flags=re.DOTALL), scanning from i:
\* the leftmost match starts at the first <think> that has a </think> after
\* it, and (non-greedy) ends with the first such </think>; the scan goes on
\* after the match.  A character that starts no match is kept.
RECURSIVE ReSubFrom(_, _)
ReSubFrom(text, i) ==
    IF i > Len(text) THEN <<>>
    ELSE IF MatchAt(text, i, OpenTag)
              /\ FindFrom(text, i + Len(OpenTag), CloseTag) # 0
         THEN ReSubFrom(text, FindFrom(text, i + Len(OpenTag), CloseTag)
                                + Len(CloseTag))
         ELSE <<text[i]>> \o ReSubFrom(text, i + 1)

ReSub(text) == ReSubFrom(text, 1)

RECURSIVE LStrip(_)
LStrip(text) ==
    IF text # <<>> /\ Head(text) \in Whitespace THEN LStrip(Tail(text))
    ELSE text

RECURSIVE RStrip(_)
RStrip(text) ==
    IF text # <<>> /\ text[Len(text)] \in Whitespace
    THEN RStrip(SubSeq(text, 1, Len(text) - 1))
    ELSE text

\* str.strip()
Strip(text) == RStrip(LStrip(text))

\* LMStudioNode._clean_thinking_tokens
_clean_thinking_tokens(text) == Strip(ReSub(text))

(***************************************************************************)
(* Statistics formatting                                                   *)
(***************************************************************************)
Digits == <<"0", "1", "2", "3", "4", "5", "6", "7", "8", "9">>

\* str(n) of a non-negative int
RECURSIVE IntToStr(_)
IntToStr(n) ==
    IF n < 10 THEN <<Digits[n + 1]>>
    ELSE IntToStr(n \div 10) \o <<Digits[(n % 10) + 1]>>

\* f"{x:.2f}" of a non-negative float x that is a whole number of
\* hundredths; the model holds such an x as the integer 100 * x.
Fixed2(h) ==
    IntToStr(h \div 100) \o <<".">>
        \o <<Digits[((h \div 10) % 10) + 1], Digits[(h % 10) + 1]>>

\* LMStudioNode._format_stats
_format_stats(tokens_per_sec, input_tokens, output_tokens) ==
    <<"T", "o", "k", "e", "n", "s", " ", "p", "e", "r", " ", "S", "e", "c",
      "o", "n", "d", ":", " ">> \o Fixed2(tokens_per_sec)
    \o <<"\n", "I", "n", "p", "u", "t", " ", "T", "o", "k", "e", "n", "s",
         ":", " ">> \o IntToStr(input_tokens)
    \o <<"\n", "O", "u", "t", "p", "u", "t", " ", "T", "o", "k", "e", "n",
         "s", ":", " ">> \o IntToStr(output_tokens)

\* LMStudioNode.__init__: self.default_stats
default_stats ==
    <<"T", "o", "k", "e", "n", "s", " ", "p", "e", "r", " ", "S", "e", "c",
      "o", "n", "d", ":", " ", "0", ".", "0", "0", "\n", "I", "n", "p", "u",
      "t", " ", "T", "o", "k", "e", "n", "s", ":", " ", "0", "\n", "O", "u",
      "t", "p", "u", "t", " ", "T", "o", "k", "e", "n", "s", ":", " ", "0">>

\* dict.get(key, default) and getattr(obj, name, default): a dict and an
\* object are functions from their keys (attribute names).
Get(d, key, default) == IF key \in DOMAIN d THEN d[key] ELSE default


(***************************************************************************)
(* Bounds and input domains                                                *)
(***************************************************************************)
\* The host stops executing the node once this many files lie in the
\* temporary directory (it bounds the files a behaviour can leave behind).
MaxFiles == 2

\* system_prompt and model_id are only copied, never inspected: opaque.
SystemPrompts == {"You are a helpful assistant.", "Be brief."}

ModelIds == {"TheBloke/Mistral-7B-Instruct-v0.2-GGUF", "qwen2-vl"}

ServerAddresses ==
    { <<"h", "t", "t", "p", ":", "/", "/", "1", "2", "7", ".", "0", ".", "0",
        ".", "1", ":", "1", "2", "3", "4">>,
      <<"h", "t", "t", "p", ":", "/", "/", "l", "m", ":", "1", "2", "3",
        "4">> }

\* "hi"; " <think>a\nb</think>hi\x0b"; "<thi<think></think>nk>x</think>"
UserMessages ==
    { <<"h", "i">>,
      <<" ", "<", "t", "h", "i", "n", "k", ">", "a", "\n", "b", "<", "/",
        "t", "h", "i", "n", "k", ">", "h", "i", "\\x0b">>,
      <<"<", "t", "h", "i", "<", "t", "h", "i", "n", "k", ">", "<", "/", "t",
        "h", "i", "n", "k", ">", "n", "k", ">", "x", "<", "/", "t", "h", "i",
        "n", "k", ">">> }

\* temperature, in hundredths (0.0 and 0.7)
Temperatures == {0, 70}

MaxTokenValues == {1, 1000}

\* An image is held as the shape of its array, [1, H, W, C]; no image (None)
\* is the empty tuple.
NoImage == <<>>

Images == {NoImage, <<1, 2, 2, 3>>, <<1, 2, 2, 4>>, <<1, 2, 2, 5>>}

(***************************************************************************)
(* The environment: what the backend returns and what the calls raise      *)
(***************************************************************************)
\* "Hello"; "<think>plan</think> Hello"
Contents ==
    { <<"H", "e", "l", "l", "o">>,
      <<"<", "t", "h", "i", "n", "k", ">", "p", "l", "a", "n", "<", "/", "t",
        "h", "i", "n", "k", ">", " ", "H", "e", "l", "l", "o">> }

StatNames == {"tokens_per_second", "prompt_tokens", "completion_tokens"}

\* What the backend answers: a completion text and token statistics
\* (tokens per second in hundredths), of which it reports those in "stats".
Replies ==
    [ given : {TRUE}, content : Contents, tokens_per_second : {300},
      prompt_tokens : {5}, completion_tokens : {2},
      stats : {StatNames, {}} ]

NoReply ==
    [ given |-> FALSE, content |-> <<>>, tokens_per_second |-> 0,
      prompt_tokens |-> 0, completion_tokens |-> 0, stats |-> {} ]

\* An exception: its class and str(e).
NoExc == [cls |-> "None", msg |-> <<>>]

\* "model not found"; "bad output <think>x</think>"
SdkErrors ==
    { [cls |-> "LMStudioError",
       msg |-> <<"m", "o", "d", "e", "l", " ", "n", "o", "t", " ", "f", "o",
                 "u", "n", "d">>],
      [cls |-> "LMStudioError",
       msg |-> <<"b", "a", "d", " ", "o", "u", "t", "p", "u", "t", " ", "<",
                 "t", "h", "i", "n", "k", ">", "x", "<", "/", "t", "h", "i",
                 "n", "k", ">">>] }

AttributeError ==
    [cls |-> "AttributeError",
     msg |-> <<"n", "o", " ", "a", "t", "t", "r", " ", "g", "e", "n", "e",
               "r", "a", "t", "i", "o", "n", "_", "t", "i", "m", "e", "_",
               "s", "e", "c">>]

OSError == [cls |-> "OSError", msg |-> <<"u", "n", "l", "i", "n", "k">>]

\* The object model.respond returns for a reply: result.content and
\* result.stats, the latter with or without generation_time_sec.
SdkResult(reply, gen) ==
    [ content |-> reply.content,
      stats |->
        [ a \in {"stop_reason"}
                \cup (IF "tokens_per_second" \in reply.stats
                      THEN {"tokens_per_second"} ELSE {})
                \cup (IF "prompt_tokens" \in reply.stats
                      THEN {"prompt_tokens_count"} ELSE {})
                \cup (IF "completion_tokens" \in reply.stats
                      THEN {"predicted_tokens_count"} ELSE {})
                \cup (IF gen THEN {"generation_time_sec"} ELSE {})
          |-> CASE a = "tokens_per_second" -> reply.tokens_per_second
                [] a = "prompt_tokens_count" -> reply.prompt_tokens
                [] a = "predicted_tokens_count" -> reply.completion_tokens
                [] a = "generation_time_sec" -> 1
                [] OTHER -> 0 ] ]

\* The JSON object the chat/completions endpoint returns for a reply.
ApiBody(reply) ==
    [ k \in {"id", "choices"}
            \cup (IF {"prompt_tokens", "completion_tokens"} \subseteq reply.stats
                  THEN {"usage"} ELSE {})
            \cup (IF "tokens_per_second" \in reply.stats
                  THEN {"stats"} ELSE {})
      |-> CASE k = "choices" ->
                 << [message |-> [role |-> "assistant",
                                  content |-> reply.content]] >>
            [] k = "usage" ->
                 [prompt_tokens |-> reply.prompt_tokens,
                  completion_tokens |-> reply.completion_tokens]
            [] k = "stats" ->
                 [tokens_per_second |-> reply.tokens_per_second]
            [] OTHER -> <<>> ]

\* The classes of an exception of class cls: itself and its bases
\* (requests.exceptions: ConnectTimeout(ConnectionError, Timeout),
\* ReadTimeout(Timeout)).
Bases(cls) ==
    CASE cls = "ConnectTimeout" ->
             {"ConnectTimeout", "ConnectionError", "Timeout", "Exception"}
      [] cls = "ReadTimeout" -> {"ReadTimeout", "Timeout", "Exception"}
      [] OTHER -> {cls, "Exception"}

\* What requests.post does: it raises, or returns a response with a status,
\* a body that is JSON or not, and the reply the body carries.
PostOutcomes ==
    [ raises : {TRUE},
      exc : { [cls |-> c, msg |-> <<"n", "e", "t">>] :
                c \in {"ConnectionError", "ConnectTimeout", "ReadTimeout"} },
      status_code : {0}, is_json : {FALSE}, well_formed : {FALSE},
      reply : {NoReply} ]
    \cup
    [ raises : {FALSE}, exc : {NoExc}, status_code : {200},
      is_json : {TRUE}, well_formed : {TRUE}, reply : Replies ]
    \cup
    [ raises : {FALSE}, exc : {NoExc}, status_code : {200, 500},
      is_json : BOOLEAN, well_formed : {FALSE}, reply : {NoReply} ]

(***************************************************************************)
(* The state                                                               *)
(***************************************************************************)
VARIABLES
    HAS_SDK,    \* whether "import lmstudio" succeeded when the module loaded
    pc,         \* where the call in progress stands
    args,       \* the arguments the host gave get_response
    call,       \* the frame of _get_response_sdk or _get_response_api
    temp_path,  \* _get_response_sdk's temp_path
    chat,       \* the lms.Chat: its messages
    ret,        \* the value a return statement left pending to the finally
    result,     \* what get_response returned to the host
    files,      \* the files in the temporary directory
    sdk_sent,   \* the model.respond requests this call submitted
    http_sent,  \* the HTTP requests this call posted
    created,    \* the file this call created (history)
    trace,      \* the external calls this call made, in order (history)
    reply,      \* what the backend answered to this call (history)
    raised      \* the exception raised during this call (history)

vars ==
    << HAS_SDK, pc, args, call, temp_path, chat, ret, result, files,
       sdk_sent, http_sent, created, trace, reply, raised >>

NoPath == <<>>

NoResult == <<>>

\* step: the statement that raised; at: the length of trace when it did.
NotRaised == [step |-> "none", exc |-> NoExc, at |-> 0]

\* The names tempfile.NamedTemporaryFile(suffix='.jpg') can give.
TempName(k) == <<"tmp", k, ".jpg">>

\* A name no file has: tempfile draws one at random; any will do.
FreshName(fs) ==
    TempName(CHOOSE k \in 1..(Cardinality(fs) + 1) :
                 /\ TempName(k) \notin fs
                 /\ \A j \in 1..(k - 1) : TempName(j) \in fs)

(***************************************************************************)
(* LMStudioNode._prepare_image                                             *)
(***************************************************************************)
\* The outcomes of _prepare_image, each the path returned, the files
\* afterwards and the file made.  Image.fromarray takes an H x W x 3 array
\* as RGB and an H x W x 4 array as RGBA, and raises on the other channel
\* counts taken here; NamedTemporaryFile creates the file or raises (the
\* directory is unusable); save(format="JPEG") raises on an RGBA image and,
\* on any image, when the write fails, the file staying behind.  The except
\* clause turns every exception into None.
_prepare_image(image, fs) ==
    { [path |-> NoPath, files |-> fs, made |-> NoPath] }
    \cup (IF image[4] \in {3, 4}
          THEN { [path |-> NoPath, files |-> fs \cup {FreshName(fs)},
                  made |-> FreshName(fs)] }
          ELSE {})
    \cup (IF image[4] = 3
          THEN { [path |-> FreshName(fs), files |-> fs \cup {FreshName(fs)},
                  made |-> FreshName(fs)] }
          ELSE {})

(***************************************************************************)
(* LMStudioNode.get_response                                               *)
(***************************************************************************)
\* Route with the availability of the binding left out of the test.
RouteOnToggleOnly(has_sdk, use_sdk) ==
    IF use_sdk THEN "_get_response_sdk" ELSE "_get_response_api"

\* "if HAS_SDK and use_sdk:"
Route(has_sdk, use_sdk) ==
    IF has_sdk /\ use_sdk THEN "_get_response_sdk" ELSE "_get_response_api"

\* "if not thinking_tokens: user_message = self._clean_thinking_tokens(...)"
Filtered(a) ==
    IF ~a.thinking_tokens THEN _clean_thinking_tokens(a.user_message)
    ELSE a.user_message

\* The arguments of the call self._get_response_sdk(...)
SdkArgs(a) ==
    [ method |-> "_get_response_sdk",
      system_prompt |-> a.system_prompt, user_message |-> Filtered(a),
      model_id |-> a.model_id, temperature |-> a.temperature,
      max_tokens |-> a.max_tokens, thinking_tokens |-> a.thinking_tokens,
      image |-> a.image, debug |-> a.debug ]

\* ApiArgs with max_tokens passed in the position of temperature.
ApiArgsShifted(a) ==
    [ method |-> "_get_response_api",
      system_prompt |-> a.system_prompt, user_message |-> Filtered(a),
      model_id |-> a.model_id, server_address |-> a.server_address,
      temperature |-> a.max_tokens,
      thinking_tokens |-> a.thinking_tokens, debug |-> a.debug ]

\* The arguments of the call self._get_response_api(...)
ApiArgs(a) ==
    [ method |-> "_get_response_api",
      system_prompt |-> a.system_prompt, user_message |-> Filtered(a),
      model_id |-> a.model_id, server_address |-> a.server_address,
      temperature |-> a.temperature,
      thinking_tokens |-> a.thinking_tokens, debug |-> a.debug ]

NoCall == [method |-> "none"]

ArgSets ==
    [ system_prompt : SystemPrompts, user_message : UserMessages,
      model_id : ModelIds, server_address : ServerAddresses,
      temperature : Temperatures, max_tokens : MaxTokenValues,
      thinking_tokens : BOOLEAN, use_sdk : BOOLEAN, image : Images,
      debug : BOOLEAN ]

\* The node's declared defaults (INPUT_TYPES), before any execution.
DefaultArgs ==
    [ system_prompt |-> "You are a helpful assistant.",
      user_message |->
          <<"E", "x", "p", "l", "a", "i", "n", " ", "q", "u", "a",
          "n", "t", "u", "m", " ", "c", "o", "m", "p", "u",
          "t", "i", "n", "g", " ", "i", "n", " ", "s", "i",
          "m", "p", "l", "e", " ", "t", "e", "r", "m", "s">>,
      model_id |-> "TheBloke/Mistral-7B-Instruct-v0.2-GGUF",
      server_address |->
          <<"h", "t", "t", "p", ":", "/", "/", "1", "2", "7", ".", "0", ".",
            "0", ".", "1", ":", "1", "2", "3", "4">>,
      temperature |-> 70, max_tokens |-> 1000, thinking_tokens |-> TRUE,
      use_sdk |-> TRUE, image |-> NoImage, debug |-> FALSE ]

Init ==
    /\ HAS_SDK \in BOOLEAN
    /\ pc = "idle"
    /\ args = DefaultArgs
    /\ call = NoCall
    /\ temp_path = NoPath
    /\ chat = <<>>
    /\ ret = NoResult
    /\ result = NoResult
    /\ files = {}
    /\ sdk_sent = <<>>
    /\ http_sent = <<>>
    /\ created = NoPath
    /\ trace = <<>>
    /\ reply = NoReply
    /\ raised = NotRaised

\* The host executes the node: get_response up to the call of the private
\* method it routes to.
get_response ==
    /\ pc = "idle"
    /\ Cardinality(files) < MaxFiles
    /\ \E a \in ArgSets :
         /\ args' = a
         /\ IF Route(HAS_SDK, a.use_sdk) = "_get_response_sdk"
            THEN call' = SdkArgs(a) /\ pc' = "sdk_llm"
            ELSE call' = ApiArgs(a) /\ pc' = "api_post"
    /\ UNCHANGED << HAS_SDK, temp_path, chat, ret, result, files, sdk_sent,
                    http_sent, created, trace, reply, raised >>

(***************************************************************************)
(* LMStudioNode._get_response_sdk                                          *)
(***************************************************************************)
\* "except Exception as e:" the pair the handler returns
SdkExcept(e) ==
    << <<"E", "r", "r", "o", "r", " ", "p", "r", "o", "c", "e", "s", "s",
         "i", "n", "g", " ", "w", "i", "t", "h", " ", "L", "M", " ", "S",
         "t", "u", "d", "i", "o", " ", "S", "D", "K", ":", " ">> \o e.msg,
       default_stats >>

\* AfterExcept with the generation tried again after a failure.
AfterExceptRetry == "sdk_respond"

\* Where control goes once the except handler has returned: the finally.
AfterExcept == "sdk_finally"

\* A statement of the try block raises e.
SdkRaise(step, e) ==
    /\ ret' = SdkExcept(e)
    /\ raised' = [step |-> step, exc |-> e, at |-> Len(trace')]
    /\ pc' = AfterExcept

\* "model = lms.llm(model_id)"
sdk_llm ==
    /\ pc = "sdk_llm"
    /\ trace' = Append(trace, "llm")
    /\ \/ /\ pc' = "sdk_Chat"
          /\ UNCHANGED <<ret, raised>>
       \/ \E e \in SdkErrors : SdkRaise("llm", e)
    /\ UNCHANGED << HAS_SDK, args, call, temp_path, chat, result, files,
                    sdk_sent, http_sent, created, reply >>

\* "if image is not None:" after the chat is created
AfterChat(image) == IF image # NoImage THEN "sdk_image" ELSE "sdk_add_user"

\* "chat = lms.Chat(system_prompt)"
sdk_Chat ==
    /\ pc = "sdk_Chat"
    /\ trace' = Append(trace, "Chat")
    /\ \/ /\ chat' = <<[role |-> "system", content |-> call.system_prompt]>>
          /\ pc' = AfterChat(call.image)
          /\ UNCHANGED <<ret, raised>>
       \/ /\ \E e \in SdkErrors : SdkRaise("Chat", e)
          /\ UNCHANGED chat
    /\ UNCHANGED << HAS_SDK, args, call, temp_path, result, files, sdk_sent,
                    http_sent, created, reply >>

\* AfterPrepare with the call given up when no path came back.
AfterPrepareAbort(path) ==
    IF path # NoPath THEN "sdk_attach" ELSE "sdk_finally"

\* "if temp_path:" after _prepare_image
AfterPrepare(path) == IF path # NoPath THEN "sdk_attach" ELSE "sdk_add_user"

\* "temp_path = self._prepare_image(image, debug)"
sdk_image ==
    /\ pc = "sdk_image"
    /\ \E r \in _prepare_image(call.image, files) :
         /\ temp_path' = r.path
         /\ files' = r.files
         /\ created' = r.made
    /\ pc' = AfterPrepare(temp_path')
    /\ trace' = Append(trace, "_prepare_image")
    /\ UNCHANGED << HAS_SDK, args, call, chat, ret, result, sdk_sent,
                    http_sent, reply, raised >>

\* "image_handle = lms.prepare_image(temp_path)"
sdk_attach ==
    /\ pc = "sdk_attach"
    /\ trace' = Append(trace, "prepare_image")
    /\ \/ /\ pc' = "sdk_add_user"
          /\ UNCHANGED <<ret, raised>>
       \/ \E e \in SdkErrors : SdkRaise("prepare_image", e)
    /\ UNCHANGED << HAS_SDK, args, call, temp_path, chat, result, files,
                    sdk_sent, http_sent, created, reply >>

\* The user turn: with images=[image_handle] in the "if temp_path:" branch,
\* text-only in the two else branches.
UserTurn(user_message, path) ==
    [ role |-> "user", content |-> user_message,
      images |-> IF path # NoPath THEN <<path>> ELSE <<>> ]

\* "chat.add_user_message(...)"
sdk_add_user ==
    /\ pc = "sdk_add_user"
    /\ trace' = Append(trace, "add_user_message")
    /\ \/ /\ chat' = Append(chat, UserTurn(call.user_message, temp_path))
          /\ pc' = "sdk_respond"
          /\ UNCHANGED <<ret, raised>>
       \/ /\ \E e \in SdkErrors : SdkRaise("add_user_message", e)
          /\ UNCHANGED chat
    /\ UNCHANGED << HAS_SDK, args, call, temp_path, result, files, sdk_sent,
                    http_sent, created, reply >>

\* "config = {...}"
Config(c) == [temperature |-> c.temperature, maxTokens |-> c.max_tokens]

\* The statistics read with getattr(result.stats, ..., default)
SdkStats(r) ==
    _format_stats(Get(r.stats, "tokens_per_second", 0),
                  Get(r.stats, "prompt_tokens_count", 0),
                  Get(r.stats, "predicted_tokens_count", 0))

\* "output = result.content" and the filter "if not thinking_tokens:"
Output(content, thinking_tokens) ==
    IF ~thinking_tokens THEN _clean_thinking_tokens(content) ELSE content

\* "result = model.respond(chat, config=config)": the chat and the config
\* are submitted, and the call waits for the generation.
sdk_respond ==
    /\ pc = "sdk_respond"
    /\ trace' = Append(trace, "respond")
    /\ sdk_sent' = Append(sdk_sent, [model |-> call.model_id, chat |-> chat,
                                     config |-> Config(call)])
    /\ pc' = "sdk_wait"
    /\ UNCHANGED << HAS_SDK, args, call, temp_path, chat, ret, result, files,
                    http_sent, created, reply, raised >>

\* model.respond raises or returns its result, and the statements after it
\* run, down to "return (output, stats_str)"; the debug log reads
\* result.stats.generation_time_sec.
sdk_result ==
    /\ pc = "sdk_wait"
    /\ UNCHANGED << HAS_SDK, args, call, temp_path, chat, result, files,
                    sdk_sent, http_sent, created, trace >>
    /\ \/ /\ \E e \in SdkErrors : SdkRaise("respond", e)
          /\ UNCHANGED reply
       \/ \E rp \in Replies, gen \in BOOLEAN :
            /\ reply' = rp
            /\ IF call.debug
                  /\ "generation_time_sec" \notin DOMAIN SdkResult(rp, gen).stats
               THEN SdkRaise("debug_log", AttributeError)
               ELSE /\ ret' = << Output(SdkResult(rp, gen).content,
                                        call.thinking_tokens),
                                 SdkStats(SdkResult(rp, gen)) >>
                    /\ pc' = "sdk_finally"
                    /\ UNCHANGED raised

\* "finally: if temp_path and os.path.exists(temp_path): os.unlink(...)";
\* os.unlink removes the file or raises, and an exception raised in the
\* finally block replaces the pending return.
sdk_finally ==
    /\ pc = "sdk_finally"
    /\ \/ /\ temp_path # NoPath /\ temp_path \in files
          /\ trace' = Append(trace, "unlink")
          /\ \/ /\ files' = files \ {temp_path}
                /\ result' = ret
                /\ pc' = "done"
                /\ UNCHANGED raised
             \/ /\ files' = files
                /\ result' = NoResult
                /\ pc' = "raised"
                /\ raised' = [step |-> "unlink", exc |-> OSError,
                              at |-> Len(trace')]
       \/ /\ ~(temp_path # NoPath /\ temp_path \in files)
          /\ result' = ret
          /\ pc' = "done"
          /\ UNCHANGED <<files, raised, trace>>
    /\ UNCHANGED << HAS_SDK, args, call, temp_path, chat, ret, sdk_sent,
                    http_sent, created, reply >>

(***************************************************************************)
(* LMStudioNode._get_response_api                                          *)
(***************************************************************************)
\* "payload = {...}"
Payload(c) ==
    [ model |-> c.model_id,
      messages |-> << [role |-> "system", content |-> c.system_prompt],
                      [role |-> "user", content |-> c.user_message] >>,
      temperature |-> c.temperature,
      stream |-> FALSE ]

\* f"{server_address}/api/v0/chat/completions"
Url(server_address) ==
    server_address \o <<"/", "a", "p", "i", "/", "v", "0", "/", "c", "h",
                        "a", "t", "/", "c", "o", "m", "p", "l", "e", "t",
                        "i", "o", "n", "s">>

\* "timeout=120"
Timeout == 120

\* The request requests.post sends.
Request(c) ==
    [ url |-> Url(c.server_address),
      headers |-> [ContentType |-> "application/json"],
      data |-> Payload(c),
      timeout |-> Timeout ]

\* "response = requests.post(...)": the request leaves.
api_post ==
    /\ pc = "api_post"
    /\ http_sent' = Append(http_sent, Request(call))
    /\ trace' = Append(trace, "post")
    /\ pc' = "api_wait"
    /\ UNCHANGED << HAS_SDK, args, call, temp_path, chat, ret, result, files,
                    sdk_sent, created, reply, raised >>

\* The exception the try block raises on an outcome of the POST, NoExc when
\* it raises none: requests.post raises; raise_for_status raises HTTPError
\* on a 4xx or 5xx status; response.json() raises on a body that is not
\* JSON; result['choices'] raises KeyError.
ApiException(o) ==
    IF o.raises THEN o.exc
    ELSE IF o.status_code >= 400 /\ o.status_code < 600
    THEN [cls |-> "HTTPError",
          msg |-> <<"5", "0", "0", " ", "S", "e", "r", "v", "e", "r", " ",
                    "E", "r", "r", "o", "r">>]
    ELSE IF ~o.is_json
    THEN [cls |-> "JSONDecodeError",
          msg |-> <<"E", "x", "p", "e", "c", "t", "i", "n", "g", " ", "v",
                    "a", "l", "u", "e">>]
    ELSE IF ~o.well_formed
    THEN [cls |-> "KeyError",
          msg |-> <<"'", "c", "h", "o", "i", "c", "e", "s", "'">>]
    ELSE NoExc

\* The except clauses, in the order written: the first whose class the
\* exception is an instance of handles it.
ApiExcept(e, server_address) ==
    IF "ConnectionError" \in Bases(e.cls)
    THEN << <<"C", "o", "n", "n", "e", "c", "t", "i", "o", "n", " ", "e",
              "r", "r", "o", "r", " ", "-", " ", "i", "s", " ", "L", "M",
              " ", "S", "t", "u", "d", "i", "o", " ", "r", "u", "n", "n",
              "i", "n", "g", " ", "a", "t", " ">>
            \o server_address \o <<"?">>,
            default_stats >>
    ELSE IF "Timeout" \in Bases(e.cls)
    THEN << <<"R", "e", "q", "u", "e", "s", "t", " ", "t", "i", "m", "e",
              "d", " ", "o", "u", "t", " ", "-", " ", "t", "r", "y", " ",
              "i", "n", "c", "r", "e", "a", "s", "i", "n", "g", " ", "t",
              "i", "m", "e", "o", "u", "t", " ", "d", "u", "r", "a", "t",
              "i", "o", "n">>,
            default_stats >>
    ELSE << <<"E", "r", "r", "o", "r", ":", " ">> \o e.msg, default_stats >>

\* The statistics read with result.get('usage', {}) and
\* result.get('stats', {})
ApiStats(body) ==
    _format_stats(
        Get(Get(body, "stats", [none |-> 0]), "tokens_per_second", 0),
        Get(Get(body, "usage", [none |-> 0]), "prompt_tokens", 0),
        Get(Get(body, "usage", [none |-> 0]), "completion_tokens", 0))

\* result['choices'][0]['message']['content']
ApiContent(body) == body["choices"][1]["message"]["content"]

\* The response arrives, or the POST raises: the rest of the try block and
\* the except clauses.
api_return ==
    /\ pc = "api_wait"
    /\ \E o \in PostOutcomes :
         /\ reply' = o.reply
         /\ IF ApiException(o) # NoExc
            THEN /\ result' = ApiExcept(ApiException(o), call.server_address)
                 /\ raised' = [step |-> "post", exc |-> ApiException(o),
                               at |-> Len(trace)]
            ELSE /\ result' = << Output(ApiContent(ApiBody(o.reply)),
                                        call.thinking_tokens),
                                 ApiStats(ApiBody(o.reply)) >>
                 /\ UNCHANGED raised
    /\ pc' = "done"
    /\ UNCHANGED << HAS_SDK, args, call, temp_path, chat, ret, files,
                    sdk_sent, http_sent, created, trace >>

\* The host takes what the call returned (or the exception it let escape)
\* and the call's frames are gone; the node is ready to be executed again.
host_takes_result ==
    /\ pc \in {"done", "raised"}
    /\ pc' = "idle"
    /\ args' = DefaultArgs
    /\ call' = NoCall
    /\ temp_path' = NoPath
    /\ chat' = <<>>
    /\ ret' = NoResult
    /\ result' = NoResult
    /\ sdk_sent' = <<>>
    /\ http_sent' = <<>>
    /\ created' = NoPath
    /\ trace' = <<>>
    /\ reply' = NoReply
    /\ raised' = NotRaised
    /\ UNCHANGED <<HAS_SDK, files>>

Next ==
    \/ get_response
    \/ host_takes_result
    \/ sdk_llm
    \/ sdk_Chat
    \/ sdk_image
    \/ sdk_attach
    \/ sdk_add_user
    \/ sdk_respond
    \/ sdk_result
    \/ sdk_finally
    \/ api_post
    \/ api_return

Spec == Init /\ [][Next]_vars

(***************************************************************************)
(* Properties                                                              *)
(***************************************************************************)
InSdk == call.method = "_get_response_sdk"

InApi == call.method = "_get_response_api"

\* text holds a substring <think>...</think>
HasThinkSpan(text) ==
    \E i \in 1..Len(text) :
        /\ MatchAt(text, i, OpenTag)
        /\ FindFrom(text, i + Len(OpenTag), CloseTag) # 0

\* The user messages handed to a transport so far: the user turns of the
\* chat and the user messages of the bodies posted.
HandedUserMessages ==
    { chat[i].content : i \in {j \in 1..Len(chat) : chat[j].role = "user"} }
    \cup { http_sent[i].data.messages[2].content : i \in 1..Len(http_sent) }

\* The statistics text of a reply: the statistics it reports, zero for the
\* others.
ReplyStats(rp) ==
    _format_stats(
        IF "tokens_per_second" \in rp.stats THEN rp.tokens_per_second ELSE 0,
        IF "prompt_tokens" \in rp.stats THEN rp.prompt_tokens ELSE 0,
        IF "completion_tokens" \in rp.stats THEN rp.completion_tokens ELSE 0)

\* The call is over and the backend answered it: the generation request
\* came back with a completion and its statistics.
Answered == pc \in {"done", "raised"} /\ reply.given

\* C1: get_response never lets an exception escape: whatever step fails,
\* the call returns a (response, stats) pair, and after any failure the
\* stats text is the default string.
C1_NoExceptionEscapes ==
    /\ pc # "raised"
    /\ pc = "done" =>
         /\ Len(result) = 2
         /\ raised # NotRaised => result[2] = default_stats

\* C2: when an SDK-path call that created a temporary image file returns,
\* the file no longer exists, on every exit path, a failed JPEG save
\* included.
C2_TempFileDeleted ==
    (pc = "done" /\ created # NoPath) => created \notin files

\* C3: with thinking_tokens false, no user message handed to a transport
\* and no response text returned holds a <think>...</think> substring.
C3_NoThinkSpan ==
    (pc # "idle" /\ ~args.thinking_tokens) =>
        /\ ~HasThinkSpan(call.user_message)
        /\ \A m \in HandedUserMessages : ~HasThinkSpan(m)
        /\ pc = "done" => ~HasThinkSpan(result[1])

\* C4: the SDK path is taken if and only if the binding is available and
\* use_sdk is true; on the SDK path the supplied image is forwarded; on the
\* HTTP path the image is dropped (no image argument, no file, nothing of
\* it in the body) and an answered call returns the completion, not an
\* error.
C4_Routing ==
    pc # "idle" =>
        /\ InSdk <=> (HAS_SDK /\ args.use_sdk)
        /\ InApi <=> ~(HAS_SDK /\ args.use_sdk)
        /\ pc \in {"sdk_llm", "sdk_Chat", "sdk_image", "sdk_attach",
                   "sdk_add_user", "sdk_respond", "sdk_wait", "sdk_finally",
                   "raised"}
             => InSdk
        /\ pc \in {"api_post", "api_wait"} => InApi
        /\ InSdk => call.image = args.image /\ http_sent = <<>>
        /\ InApi =>
             /\ "image" \notin DOMAIN call
             /\ created = NoPath /\ temp_path = NoPath
             /\ sdk_sent = <<>> /\ chat = <<>>
             /\ \A i \in 1..Len(http_sent) :
                  /\ DOMAIN http_sent[i].data
                       = {"model", "messages", "temperature", "stream"}
                  /\ \A k \in 1..Len(http_sent[i].data.messages) :
                       DOMAIN http_sent[i].data.messages[k]
                         = {"role", "content"}
             /\ (pc = "done" /\ reply.given) =>
                  /\ raised = NotRaised
                  /\ result[1] = Output(reply.content, args.thinking_tokens)

\* C4 witness: the binding is available, use_sdk is false, an image was
\* supplied, and the HTTP call was answered.
C4_Witness ==
    /\ pc = "done" /\ HAS_SDK /\ ~args.use_sdk /\ args.image # NoImage
    /\ InApi /\ reply.given /\ Len(http_sent) = 1

\* C5: a POST that fails with a timeout error, a timeout while connecting
\* included, returns the timed-out text with the default stats.
C5_TimeoutReported ==
    (pc = "done" /\ raised.step = "post"
       /\ "Timeout" \in Bases(raised.exc.cls)) =>
        result = << <<"R", "e", "q", "u", "e", "s", "t", " ", "t", "i", "m",
                      "e", "d", " ", "o", "u", "t", " ", "-", " ", "t", "r",
                      "y", " ", "i", "n", "c", "r", "e", "a", "s", "i", "n",
                      "g", " ", "t", "i", "m", "e", "o", "u", "t", " ", "d",
                      "u", "r", "a", "t", "i", "o", "n">>,
                    default_stats >>

\* The generation parameters and attachments the call submitted to the
\* backend: the config of model.respond and the images of the user turn on
\* the SDK path, the fields of the posted body on the HTTP path.  A
\* parameter that was not submitted is the empty tuple.
SubmittedTemperature ==
    IF InSdk THEN <<sdk_sent[1].config.temperature>>
    ELSE IF "temperature" \in DOMAIN http_sent[1].data
    THEN <<http_sent[1].data.temperature>> ELSE <<>>

SubmittedMaxTokens ==
    IF InSdk THEN <<sdk_sent[1].config.maxTokens>>
    ELSE IF {"max_tokens", "maxTokens"} \cap DOMAIN http_sent[1].data # {}
    THEN <<Get(http_sent[1].data, "max_tokens",
               Get(http_sent[1].data, "maxTokens", 0))>>
    ELSE <<>>

SubmittedImages ==
    IF InSdk THEN sdk_sent[1].chat[2].images
    ELSE IF "images" \in DOMAIN http_sent[1].data.messages[2]
    THEN http_sent[1].data.messages[2].images ELSE <<>>

\* Image preparation was run and returned no path.
PrepareFailed ==
    /\ InSdk /\ call.image # NoImage /\ temp_path = NoPath
    /\ \E i \in 1..Len(trace) : trace[i] = "_prepare_image"

\* The pair both paths are to return for the reply.
ReplyResult ==
    << Output(reply.content, args.thinking_tokens), ReplyStats(reply) >>

\* The pair part of C6: whichever path an answered call took, it returns
\* the pair made from the reply: the completion (filtered when
\* thinking_tokens is false) with the formatted statistics of the reply.
C6_SamePair == Answered => pc = "done" /\ result = ReplyResult

\* The submission part of C6: whichever path an answered call took, it
\* submitted the temperature, the max output tokens, and the image unless
\* its preparation failed.
C6_SameSubmission ==
    Answered =>
        /\ SubmittedTemperature = <<args.temperature>>
        /\ SubmittedMaxTokens = <<args.max_tokens>>
        /\ Len(SubmittedImages)
             = (IF args.image # NoImage /\ ~PrepareFailed THEN 1 ELSE 0)

\* C6: for the same parameters and the same reply, a call returns the
\* same pair and submits the same generation parameters and attachments
\* whichever path it takes.  Two paths agree on every input exactly when
\* both compute one function of the parameters and the reply; the
\* function is the one the claim names: the pair made from the completion
\* and the statistics, and the request made from the parameters.  No step
\* of either path is assumed to succeed: a path that fails after the
\* backend answered returns another pair than the path that does not.
C6_PathEquivalence == C6_SamePair /\ C6_SameSubmission

\* C7: a call submits at most one generation request, on one transport: the
\* one its routing selects; no external call is made twice; and after a
\* statement has raised nothing more is called but the cleanup, so a
\* failure before the generation leaves no request submitted.
C7_SingleAttempt ==
    /\ Len(sdk_sent) + Len(http_sent) <= 1
    /\ sdk_sent # <<>> => (HAS_SDK /\ args.use_sdk)
    /\ http_sent # <<>> => ~(HAS_SDK /\ args.use_sdk)
    /\ \A i, j \in 1..Len(trace) : trace[i] = trace[j] => i = j
    /\ raised # NotRaised =>
         \A i \in (raised.at + 1)..Len(trace) : trace[i] = "unlink"
    /\ raised.step \in {"llm", "Chat", "prepare_image", "add_user_message"}
         => sdk_sent = <<>> /\ http_sent = <<>>

\* C7 witness: on the SDK path the generation failed after an image was
\* attached; the call is over with one request submitted and none posted.
C7_Witness ==
    /\ pc = "done" /\ raised.step = "respond"
    /\ Len(sdk_sent) = 1 /\ http_sent = <<>>
    /\ trace[Len(trace)] = "unlink"

\* C8: a temporary file on disk implies an SDK-path call in progress that
\* was given an image.
C8_FileOnlyDuringSdkCall ==
    files # {} =>
        /\ pc \in {"sdk_image", "sdk_attach", "sdk_add_user", "sdk_respond",
                   "sdk_wait", "sdk_finally"}
        /\ InSdk
        /\ call.image # NoImage

\* The SDK-path call reached the generation.
ReachedGeneration == InSdk /\ (pc = "sdk_respond" \/ sdk_sent # <<>>)

UserTurns == SelectSeq(chat, LAMBDA m : m.role = "user")

C10_RequestDependsOnFiveInputs ==
    \A i \in 1..Len(http_sent) :
        http_sent[i]
          = [ url |-> Url(args.server_address),
              headers |-> [ContentType |-> "application/json"],
              data |->
                [ model |-> args.model_id,
                  messages |->
                    << [role |-> "system", content |-> args.system_prompt],
                       [role |-> "user",
                        content |->
                          IF args.thinking_tokens THEN args.user_message
                          ELSE _clean_thinking_tokens(args.user_message)] >>,
                  temperature |-> args.temperature,
                  stream |-> FALSE ],
              timeout |-> Timeout ]

\* C10 witness: a request was posted by a call given a max_tokens of 1, an
\* image, use_sdk true and debug true, its user message filtered.
C10_Witness ==
    /\ Len(http_sent) = 1 /\ pc = "api_wait"
    /\ args.max_tokens = 1 /\ args.image # NoImage
    /\ args.use_sdk /\ args.debug
    /\ ~args.thinking_tokens /\ HasThinkSpan(args.user_message)

=============================================================================
